---- MODULE Spec2Model ----
(***************************************************************************)
(* The resumable paginated extraction of HubSpot deals:                    *)
(*   services/data_source.py          get_hubspot_deals (the Engine)       *)
(*   services/hubspot_api_service.py  HubSpotAPIService (the Client)       *)
(* One extraction run is a generator; its steps are the stretches of code  *)
(* between two calls to the outside (a predicate, an HTTP request, a       *)
(* yield).  The locals of the generator are the fields of the record eng.  *)
(* Spec is the Engine over the responses of the Client; ClientSpec is one  *)
(* HubSpotAPIService with its clock and its sleeps; LoopSpec is the Engine *)
(* on a chain of cursors that never ends; PairSpec is two services side    *)
(* by side; FaultSpec is the Engine with predicates that can raise.        *)
(***************************************************************************)
EXTENDS Integers, Sequences, FiniteSets, TLC

\* ---------------------------------------------------------------- bounds
\* longest chain of pages the remote API serves
MaxPages == 6
\* how far below the safety limit a caller-supplied page_number may lie
LateWindow == 2

\* ------------------------------------------------------ program constants
\* while page_count < 1000
SafetyLimit == 1000
checkpoint_interval == 5
batch_size == 100
max_retries == 3

cancel_check_interval == 1
pause_check_interval == 1

\* Python's None as a cursor: no cursor
None == 0

\* --------------------------------------------------------- the remote API
\* A raw deal as the API returns it: its id and the properties the Engine
\* reads; "" is a property the deal does not have
Deal(p, k, stage, pipe, forecast) ==
    [id |-> <<p, k>>, dealstage |-> stage, pipeline |-> pipe,
     amount |-> "", hs_deal_stage_probability |-> "", closedate |-> "",
     createdate |-> "", hs_lastmodifieddate |-> "",
     num_associated_contacts |-> "",
     hs_forecast_amount |-> forecast, hs_forecast_probability |-> ""]

\* The page bodies the API can serve; a chain is built from them in turn.
\* Some values of the properties parsed under try/except are malformed.
PageMenu ==
    << << [Deal(1, 1, "won", "sales", "10")
              EXCEPT !.amount = "N/A", !.hs_deal_stage_probability = "50",
                     !.closedate = "2026-03-01T00:00:00Z"],
          [Deal(1, 2, "open", "sales", "")
              EXCEPT !.amount = "10", !.closedate = "soon"] >>,
       << >>,
       << [Deal(3, 1, "open", "partner", "")
              EXCEPT !.amount = "N/A", !.hs_deal_stage_probability = "high"],
          [Deal(3, 2, "won", "sales", "")
              EXCEPT !.createdate = "13/01/2026", !.num_associated_contacts = "3",
                     !.hs_lastmodifieddate = "2026-03-01T00:00:00Z"],
          [Deal(3, 3, "won", "partner", "10")
              EXCEPT !.hs_forecast_probability = "50"] >>,
       << [Deal(4, 1, "won", "sales", "")
              EXCEPT !.amount = "N/A", !.hs_lastmodifieddate = "yesterday"] >> >>

VARIABLES
    num_pages,            \* length of the chain c0 -> ... -> chain_end
    chain_end,            \* paging.next.after of the last page: None, or a
                          \* cursor served before (a chain that never ends)
    shift,                \* which body of PageMenu the first page has
    malformed,            \* id of the deal with a malformed property among
                          \* those parsed outside try/except
    deal_stages,          \* filters["dealStages"]
    pipelines,            \* filters["pipelines"]
    checkpoint_callback,  \* whether the caller supplied one
    resume_from,          \* << >> (None) or <<the checkpoint the caller resumes from>>
    cancel_flag,          \* what check_cancel_callback(scan_id) returns now
    pause_flag,           \* what check_pause_callback(scan_id) returns now
    eng,                  \* the run
    ref,                  \* the same run with a callback that never fails
    client,               \* one HubSpotAPIService instance and its clock
    peer                  \* the HubSpotAPIService of another run, made by
                          \* another call of create_data_source

vars == <<num_pages, chain_end, shift, malformed, deal_stages, pipelines,
          checkpoint_callback, resume_from, cancel_flag, pause_flag,
          eng, ref, client, peer>>

config == <<num_pages, chain_end, shift, malformed, deal_stages, pipelines,
            checkpoint_callback>>

\* the property of that deal that is malformed
BadProperty ==
    CASE malformed[2] = 2 -> "hs_forecast_amount"
      [] shift = 0 -> "num_associated_contacts"
      [] OTHER -> "hs_forecast_probability"

\* results of the page with index p (1..num_pages)
Results(p) ==
    LET body == PageMenu[((p - 1 + shift) % Len(PageMenu)) + 1]
    IN  [k \in 1..Len(body) |->
            IF <<p, k>> = malformed
            THEN [body[k] EXCEPT !.id = <<p, k>>, ![BadProperty] = "N/A"]
            ELSE [body[k] EXCEPT !.id = <<p, k>>]]

\* paging.next.after of page p
NextCursor(p) == IF p < num_pages THEN p + 1 ELSE chain_end

\* the page the API serves for a cursor: params['after'] only if after is truthy
PageOf(after) == IF after = None THEN 1 ELSE after

\* ------------------------------------------------- transform_hubspot_deal
\* float(s) and int(s) of a property string: the value, or ValueError
FloatParses(s) == s \in {"10", "50"}
FloatValue(s) == CASE s = "10" -> 10 [] s = "50" -> 50 [] OTHER -> 0
CountParses(s) == s \in {"3"}
CountValue(s) == CASE s = "3" -> 3 [] OTHER -> 0

\* datetime.fromisoformat(date_str.replace('Z', '+00:00')): the value, or
\* ValueError
DateParses(s) == s \in {"2026-03-01T00:00:00Z"}
DateValue(s) ==
    CASE s = "2026-03-01T00:00:00Z" -> "2026-03-01T00:00:00+00:00"
      [] OTHER -> ""

\* a value, and None
Some(v) == <<v>>
Null == << >>

\* amount, hs_deal_stage_probability: float(...) under
\* try / except (ValueError, TypeError)
GuardedFloat(s) == IF s # "" /\ FloatParses(s) THEN Some(FloatValue(s)) ELSE Null

\* parse_date
parse_date(s) == IF s # "" /\ DateParses(s) THEN Some(DateValue(s)) ELSE Null

\* TransformRaises with a slip: float(amount) is outside try/except too
TransformRaises_AmountUnguarded(deal) ==
    \/ deal.amount # "" /\ ~FloatParses(deal.amount)
    \/ deal.num_associated_contacts # ""
           /\ ~CountParses(deal.num_associated_contacts)
    \/ deal.hs_forecast_amount # "" /\ ~FloatParses(deal.hs_forecast_amount)
    \/ deal.hs_forecast_probability # ""
           /\ ~FloatParses(deal.hs_forecast_probability)

\* the conversions outside try/except raise ValueError on a malformed value:
\* int(num_associated_contacts), float(hs_forecast_amount),
\* float(hs_forecast_probability)
TransformRaises(deal) ==
    \/ deal.num_associated_contacts # ""
           /\ ~CountParses(deal.num_associated_contacts)
    \/ deal.hs_forecast_amount # "" /\ ~FloatParses(deal.hs_forecast_amount)
    \/ deal.hs_forecast_probability # ""
           /\ ~FloatParses(deal.hs_forecast_probability)

\* the record, when no conversion raises; a probability is a pair
\* <<percentage, 100>> for percentage / 100.0
transform_hubspot_deal(deal, page_number) ==
    [deal_id |-> deal.id,
     amount |-> GuardedFloat(deal.amount),
     deal_stage |-> deal.dealstage,
     close_date |-> parse_date(deal.closedate),
     pipeline |-> deal.pipeline,
     deal_stage_probability |->
        IF GuardedFloat(deal.hs_deal_stage_probability) = Null THEN Null
        ELSE Some(<<GuardedFloat(deal.hs_deal_stage_probability)[1], 100>>),
     num_associated_contacts |->
        IF deal.num_associated_contacts # ""
        THEN CountValue(deal.num_associated_contacts) ELSE 0,
     forecast_amount |->
        IF deal.hs_forecast_amount # ""
        THEN Some(FloatValue(deal.hs_forecast_amount)) ELSE Null,
     forecast_probability |->
        IF deal.hs_forecast_probability # ""
        THEN Some(FloatValue(deal.hs_forecast_probability)) ELSE Null,
     hubspot_created_at |-> parse_date(deal.createdate),
     hubspot_updated_at |-> parse_date(deal.hs_lastmodifieddate),
     page_number |-> page_number]

\* Discarded with a slip: a record is dropped only when both lists reject it
Discarded_WhenBothReject(t) ==
    /\ deal_stages # {} /\ t.deal_stage \notin deal_stages
    /\ pipelines # {} /\ t.pipeline \notin pipelines

\* the two allow-lists; an empty list is falsy and filters nothing
Discarded(t) ==
    \/ deal_stages # {} /\ t.deal_stage \notin deal_stages
    \/ pipelines # {} /\ t.pipeline \notin pipelines

\* ------------------------------------------------------------ the Engine
Checkpoint(phase, records_processed, cursor, page_number) ==
    [phase |-> phase, records_processed |-> records_processed,
     cursor |-> cursor, page_number |-> page_number, batch_size |-> batch_size]

\* before create_data_source is called; the generator before its first step
Idle ==
    [pc |-> "idle", access_token |-> "", is_valid |-> "",
     after |-> None, page_count |-> 0, total_records |-> 0,
     page_records |-> 0, data |-> 0, idx |-> 0, attempt |-> 0,
     responses |-> << >>, exc |-> "", emitted |-> << >>, fetched |-> << >>,
     ckpts |-> << >>, swallowed |-> 0, end |-> "",
     polls |-> [cancel |-> 0, pause |-> 0, record |-> 0]]

\* a call of check_cancel_callback(scan_id) (who = "cancel") or of
\* check_pause_callback(scan_id), at the page boundary ("pause") or before a
\* record ("record")
Polled(e, who) == [e EXCEPT !.polls[who] = @ + 1]

\* StartOp with a slip: the seed's cursor is not taken over
StartOp_IgnoresCursor(rf) ==
    IF rf # << >>
    THEN [Idle EXCEPT !.pc = "cancel_check",
                      !.page_count = rf[1].page_number,
                      !.total_records = rf[1].records_processed]
    ELSE [Idle EXCEPT !.pc = "cancel_check"]

\* StartOp with a slip: the count of a resumed run starts at zero again
StartOp_CountFromZero(rf) ==
    IF rf # << >>
    THEN [Idle EXCEPT !.pc = "cancel_check",
                      !.after = rf[1].cursor,
                      !.page_count = rf[1].page_number]
    ELSE [Idle EXCEPT !.pc = "cancel_check"]

\* StartOp with a slip: the page count of a resumed run starts at zero
\* again, so the ceiling counts the pages of the current run
StartOp_PagesFromZero(rf) ==
    IF rf # << >>
    THEN [Idle EXCEPT !.pc = "cancel_check",
                      !.after = rf[1].cursor,
                      !.total_records = rf[1].records_processed]
    ELSE [Idle EXCEPT !.pc = "cancel_check"]

\* Initialize state: seeded from resume_from, or fresh
StartOp(rf) ==
    IF rf # << >>
    THEN [Idle EXCEPT !.pc = "cancel_check",
                      !.after = rf[1].cursor,
                      !.page_count = rf[1].page_number,
                      !.total_records = rf[1].records_processed]
    ELSE [Idle EXCEPT !.pc = "cancel_check"]

\* if checkpoint_callback: try: checkpoint_callback(scan_id, ck)
\* except Exception: logger.warning(...)   (except: pass  for the error one)
\* ok: whether the callback returned; a failure is swallowed and counted
Save(e, ck, ok) ==
    IF checkpoint_callback
    THEN [e EXCEPT !.ckpts = Append(@, ck),
                   !.swallowed = IF ok THEN @ ELSE @ + 1]
    ELSE e

\* break / return / raise: the generator is exhausted
Stop(e, how) ==
    [e EXCEPT !.pc = "done", !.end = how, !.attempt = 0, !.responses = << >>]

\* raise inside the try of the loop body
Raise(e, exc) == [e EXCEPT !.pc = "error", !.exc = exc]

\* CancelCheckOp with a slip: the loop is  while True
CancelCheckOp_NoLimit(e, cancel, ok) ==
    IF e.page_count % cancel_check_interval = 0 /\ cancel
    THEN Stop(Save(Polled(e, "cancel"),
                   Checkpoint("hubspot_deals_cancelled", e.total_records,
                              e.after, e.page_count), ok),
              "cancelled")
    ELSE [Polled(e, "cancel") EXCEPT !.pc = "pause_check"]

\* CancelCheckOp with a slip: the break after the checkpoint is missing
CancelCheckOp_NoBreak(e, cancel, ok) ==
    IF ~(e.page_count < SafetyLimit)
    THEN Stop(e, "limit")
    ELSE IF e.page_count % cancel_check_interval = 0 /\ cancel
    THEN [Save(Polled(e, "cancel"),
               Checkpoint("hubspot_deals_cancelled", e.total_records,
                          e.after, e.page_count), ok)
            EXCEPT !.pc = "pause_check"]
    ELSE [Polled(e, "cancel") EXCEPT !.pc = "pause_check"]

\* CancelCheckOp with a slip: the pause check is written above the
\* cancellation check
CancelCheckOp_PauseFirst(e, cancel, ok) ==
    IF ~(e.page_count < SafetyLimit)
    THEN Stop(e, "limit")
    ELSE IF e.page_count % pause_check_interval = 0 /\ pause_flag
    THEN Stop(Save(Polled(e, "pause"),
                   Checkpoint("hubspot_deals_paused", e.total_records,
                              e.after, e.page_count), ok),
              "paused")
    ELSE IF e.page_count % cancel_check_interval = 0 /\ cancel
    THEN Stop(Save(Polled(e, "cancel"),
                   Checkpoint("hubspot_deals_cancelled", e.total_records,
                              e.after, e.page_count), ok),
              "cancelled")
    ELSE [Polled(e, "cancel") EXCEPT !.pc = "pause_check"]

\* while page_count < 1000, then the cancellation check
CancelCheckOp(e, cancel, ok) ==
    IF ~(e.page_count < SafetyLimit)
    THEN Stop(e, "limit")
    ELSE IF e.page_count % cancel_check_interval = 0 /\ cancel
    THEN Stop(Save(Polled(e, "cancel"),
                   Checkpoint("hubspot_deals_cancelled", e.total_records,
                              e.after, e.page_count), ok),
              "cancelled")
    ELSE [Polled(e, "cancel") EXCEPT !.pc = "pause_check"]

\* PauseCheckOp with a slip: the paused checkpoint names the next cursor's
\* page as already completed
PauseCheckOp_CountsPage(e, pause, ok) ==
    IF e.page_count % pause_check_interval = 0 /\ pause
    THEN Stop(Save(Polled(e, "pause"),
                   Checkpoint("hubspot_deals_paused", e.total_records,
                              e.after, e.page_count + 1), ok),
              "paused")
    ELSE [Polled(e, "pause")
            EXCEPT !.pc = "request", !.attempt = 0, !.responses = << >>,
                   !.fetched = Append(@, e.after)]

\* PauseCheckOp with a slip: the callback is called outside a try, so its
\* failure reaches the handler of the loop body
PauseCheckOp_CallbackRaises(e, pause, ok) ==
    IF e.page_count % pause_check_interval = 0 /\ pause
    THEN (IF checkpoint_callback /\ ~ok
          THEN Raise(Save(Polled(e, "pause"),
                          Checkpoint("hubspot_deals_paused", e.total_records,
                                     e.after, e.page_count), ok),
                     "Exception")
          ELSE Stop(Save(Polled(e, "pause"),
                         Checkpoint("hubspot_deals_paused", e.total_records,
                                    e.after, e.page_count), ok),
                    "paused"))
    ELSE [Polled(e, "pause")
            EXCEPT !.pc = "request", !.attempt = 0, !.responses = << >>,
                   !.fetched = Append(@, e.after)]

\* the pause check at the page boundary, then the call of get_deals
PauseCheckOp(e, pause, ok) ==
    IF e.page_count % pause_check_interval = 0 /\ pause
    THEN Stop(Save(Polled(e, "pause"),
                   Checkpoint("hubspot_deals_paused", e.total_records,
                              e.after, e.page_count), ok),
              "paused")
    ELSE [Polled(e, "pause")
            EXCEPT !.pc = "request", !.attempt = 0, !.responses = << >>,
                   !.fetched = Append(@, e.after)]

\* get_deals returned: page_records = 0, deals = data["results"]
Received(e) ==
    LET p == PageOf(e.after)
    IN  [e EXCEPT !.data = p, !.page_records = 0, !.idx = 1,
                  !.attempt = 0, !.responses = << >>,
                  !.pc = IF Len(Results(p)) = 0 THEN "end_page" ELSE "records"]

\* one turn of  for attempt in range(max_retries)  of _make_request
MakeRequestOp(e, resp) ==
    LET r == [e EXCEPT !.responses = Append(@, resp)]
    IN  CASE resp = "ok" -> Received(r)
          [] resp = "429" ->
                \* sleep(retry_after); continue
                IF e.attempt + 1 < max_retries
                THEN [r EXCEPT !.attempt = @ + 1]
                ELSE Raise(r, "Exception")
          [] OTHER ->
                \* except RequestException
                IF e.attempt = max_retries - 1
                THEN Raise(r, "RequestException")
                ELSE [r EXCEPT !.attempt = @ + 1]

\* the next deal of the loop  for deal in deals
NextDeal(e) ==
    IF e.idx + 1 > Len(Results(e.data))
    THEN [e EXCEPT !.idx = @ + 1, !.pc = "end_page"]
    ELSE [e EXCEPT !.idx = @ + 1]

\* ProcessRecordOp with a slip: the mid-page checkpoint carries the next cursor
ProcessRecordOp_NextCursor(e, pause, ok) ==
    LET deal == Results(e.data)[e.idx]
        t == transform_hubspot_deal(deal, e.page_count + 1)
        q == Polled(e, "record")
    IN  IF pause
        THEN Stop(Save(q, Checkpoint("hubspot_deals_paused_mid_page",
                                     e.total_records + e.page_records,
                                     NextCursor(e.data), e.page_count), ok),
                  "paused_mid_page")
        ELSE IF TransformRaises(deal) THEN Raise(q, "ValueError")
        ELSE IF Discarded(t) THEN NextDeal(q)
        ELSE NextDeal([q EXCEPT !.emitted = Append(@, t.deal_id),
                                !.page_records = @ + 1])

\* ProcessRecordOp with a slip: the mid-page checkpoint leaves out the
\* records of the page in progress
ProcessRecordOp_PageTotalOnly(e, pause, ok) ==
    LET deal == Results(e.data)[e.idx]
        t == transform_hubspot_deal(deal, e.page_count + 1)
        q == Polled(e, "record")
    IN  IF pause
        THEN Stop(Save(q, Checkpoint("hubspot_deals_paused_mid_page",
                                     e.total_records,
                                     e.after, e.page_count), ok),
                  "paused_mid_page")
        ELSE IF TransformRaises(deal) THEN Raise(q, "ValueError")
        ELSE IF Discarded(t) THEN NextDeal(q)
        ELSE NextDeal([q EXCEPT !.emitted = Append(@, t.deal_id),
                                !.page_records = @ + 1])

\* ProcessRecordOp with a slip: the cancel predicate is polled before each
\* record too, and stops the run in the middle of the page
ProcessRecordOp_PollsCancel(e, pause, ok) ==
    LET deal == Results(e.data)[e.idx]
        t == transform_hubspot_deal(deal, e.page_count + 1)
        q == Polled(e, "record")
    IN  IF cancel_flag
        THEN Stop(Save(Polled(e, "cancel"),
                       Checkpoint("hubspot_deals_cancelled",
                                  e.total_records + e.page_records,
                                  e.after, e.page_count), ok),
                  "cancelled")
        ELSE IF pause
        THEN Stop(Save(q, Checkpoint("hubspot_deals_paused_mid_page",
                                     e.total_records + e.page_records,
                                     e.after, e.page_count), ok),
                  "paused_mid_page")
        ELSE IF TransformRaises(deal) THEN Raise(q, "ValueError")
        ELSE IF Discarded(t) THEN NextDeal(q)
        ELSE NextDeal([q EXCEPT !.emitted = Append(@, t.deal_id),
                                !.page_records = @ + 1])

\* ProcessRecordOp with a slip: the pause predicate is polled after the
\* filters, before the records that qualify only
ProcessRecordOp_PollsQualifyingOnly(e, pause, ok) ==
    LET deal == Results(e.data)[e.idx]
        t == transform_hubspot_deal(deal, e.page_count + 1)
        q == Polled(e, "record")
    IN  IF TransformRaises(deal) THEN Raise(e, "ValueError")
        ELSE IF Discarded(t) THEN NextDeal(e)
        ELSE IF pause
        THEN Stop(Save(q, Checkpoint("hubspot_deals_paused_mid_page",
                                     e.total_records + e.page_records,
                                     e.after, e.page_count), ok),
                  "paused_mid_page")
        ELSE NextDeal([q EXCEPT !.emitted = Append(@, t.deal_id),
                                !.page_records = @ + 1])

\* one turn of  for deal in deals: pause check, transform, filters, yield
ProcessRecordOp(e, pause, ok) ==
    LET deal == Results(e.data)[e.idx]
        t == transform_hubspot_deal(deal, e.page_count + 1)
        q == Polled(e, "record")
    IN  IF pause
        THEN Stop(Save(q, Checkpoint("hubspot_deals_paused_mid_page",
                                     e.total_records + e.page_records,
                                     e.after, e.page_count), ok),
                  "paused_mid_page")
        ELSE IF TransformRaises(deal) THEN Raise(q, "ValueError")
        ELSE IF Discarded(t) THEN NextDeal(q)
        ELSE NextDeal([q EXCEPT !.emitted = Append(@, t.deal_id),
                                !.page_records = @ + 1])

\* EndPageOp with a slip: the interval is tested on the count of pages
\* before the page just finished
EndPageOp_TestsBeforeCounting(e, ok1, ok2) ==
    LET next_cursor == NextCursor(e.data)
        c == [e EXCEPT !.total_records = @ + e.page_records,
                       !.page_count = @ + 1]
        s == IF checkpoint_callback /\ e.page_count % checkpoint_interval = 0
             THEN Save(c, Checkpoint("hubspot_deals_processing", c.total_records,
                                     next_cursor, c.page_count), ok1)
             ELSE c
    IN  IF next_cursor # None
        THEN [s EXCEPT !.after = next_cursor, !.pc = "cancel_check"]
        ELSE Stop(Save(s, Checkpoint("hubspot_deals_completed", s.total_records,
                                     None, s.page_count), ok2),
                  "completed")

\* EndPageOp with a slip: the processing checkpoint carries the cursor of
\* the page just finished, not the next one
EndPageOp_StaleCursor(e, ok1, ok2) ==
    LET next_cursor == NextCursor(e.data)
        c == [e EXCEPT !.total_records = @ + e.page_records,
                       !.page_count = @ + 1]
        s == IF checkpoint_callback /\ c.page_count % checkpoint_interval = 0
             THEN Save(c, Checkpoint("hubspot_deals_processing", c.total_records,
                                     e.after, c.page_count), ok1)
             ELSE c
    IN  IF next_cursor # None
        THEN [s EXCEPT !.after = next_cursor, !.pc = "cancel_check"]
        ELSE Stop(Save(s, Checkpoint("hubspot_deals_completed", s.total_records,
                                     None, s.page_count), ok2),
                  "completed")

\* EndPageOp with a slip: the total grows by the raw deals of the page, the
\* discarded ones too
EndPageOp_CountsDiscarded(e, ok1, ok2) ==
    LET next_cursor == NextCursor(e.data)
        c == [e EXCEPT !.total_records = @ + Len(Results(e.data)),
                       !.page_count = @ + 1]
        s == IF checkpoint_callback /\ c.page_count % checkpoint_interval = 0
             THEN Save(c, Checkpoint("hubspot_deals_processing", c.total_records,
                                     next_cursor, c.page_count), ok1)
             ELSE c
    IN  IF next_cursor # None
        THEN [s EXCEPT !.after = next_cursor, !.pc = "cancel_check"]
        ELSE Stop(Save(s, Checkpoint("hubspot_deals_completed", s.total_records,
                                     None, s.page_count), ok2),
                  "completed")

\* EndPageOp with a slip: no break after the completed checkpoint, the loop
\* goes on with a null cursor
EndPageOp_NoBreak(e, ok1, ok2) ==
    LET next_cursor == NextCursor(e.data)
        c == [e EXCEPT !.total_records = @ + e.page_records,
                       !.page_count = @ + 1]
        s == IF checkpoint_callback /\ c.page_count % checkpoint_interval = 0
             THEN Save(c, Checkpoint("hubspot_deals_processing", c.total_records,
                                     next_cursor, c.page_count), ok1)
             ELSE c
    IN  IF next_cursor # None
        THEN [s EXCEPT !.after = next_cursor, !.pc = "cancel_check"]
        ELSE [Save(s, Checkpoint("hubspot_deals_completed", s.total_records,
                                 None, s.page_count), ok2)
                EXCEPT !.pc = "cancel_check"]

\* Update counters, periodic checkpoint, pagination decision
EndPageOp(e, ok1, ok2) ==
    LET next_cursor == NextCursor(e.data)
        c == [e EXCEPT !.total_records = @ + e.page_records,
                       !.page_count = @ + 1]
        s == IF checkpoint_callback /\ c.page_count % checkpoint_interval = 0
             THEN Save(c, Checkpoint("hubspot_deals_processing", c.total_records,
                                     next_cursor, c.page_count), ok1)
             ELSE c
    IN  IF next_cursor # None
        THEN [s EXCEPT !.after = next_cursor, !.pc = "cancel_check"]
        ELSE Stop(Save(s, Checkpoint("hubspot_deals_completed", s.total_records,
                                     None, s.page_count), ok2),
                  "completed")

\* HandleErrorOp with a slip: after the error checkpoint the loop goes on
\* with the same cursor instead of raising
HandleErrorOp_Retries(e, ok) ==
    [Save(e, Checkpoint("hubspot_deals_error", e.total_records,
                        e.after, e.page_count), ok)
        EXCEPT !.pc = "cancel_check"]

\* HandleErrorOp with a slip: the error checkpoint counts the records
\* already emitted from the page in progress
HandleErrorOp_CountsPageRecords(e, ok) ==
    Stop(Save(e, Checkpoint("hubspot_deals_error",
                            e.total_records + e.page_records,
                            e.after, e.page_count), ok),
         "error")

\* check_cancel_callback(scan_id) raises
CancelPredicateRaisesOp(e) ==
    IF ~(e.page_count < SafetyLimit)
    THEN Stop(e, "limit")
    ELSE IF e.page_count % cancel_check_interval = 0
    THEN Raise(Polled(e, "cancel"), "PredicateError")
    ELSE [e EXCEPT !.pc = "pause_check"]

\* check_pause_callback(scan_id) raises at the page boundary; with no poll
\* due, get_deals is called
PausePredicateRaisesOp(e) ==
    IF e.page_count % pause_check_interval = 0
    THEN Raise(Polled(e, "pause"), "PredicateError")
    ELSE [e EXCEPT !.pc = "request", !.attempt = 0, !.responses = << >>,
                   !.fetched = Append(@, e.after)]

\* check_pause_callback(scan_id) raises before a record
RecordPredicateRaisesOp(e) == Raise(Polled(e, "record"), "PredicateError")

\* except Exception as e: error checkpoint, raise e
HandleErrorOp(e, ok) ==
    Stop(Save(e, Checkpoint("hubspot_deals_error", e.total_records,
                                 e.after, e.page_count), ok),
         "error")

\* --------------------------------------------------- create_data_source
\* what _make_request makes of the responses rs from loop turn attempt on:
\* "response", or the exception it raises
RECURSIVE MakeRequestResult(_, _)
MakeRequestResult(attempt, rs) ==
    LET e == MakeRequestOp([Idle EXCEPT !.pc = "request", !.attempt = attempt],
                           Head(rs))
    IN  CASE e.pc = "error" -> e.exc
          [] e.pc = "request" -> MakeRequestResult(e.attempt, Tail(rs))
          [] OTHER -> "response"

\* validate_credentials: True on a 200, False on a RequestException; any
\* other exception of _make_request propagates
validate_credentials(rs) ==
    LET r == MakeRequestResult(0, rs)
    IN  CASE r = "response" -> "True"
          [] r = "RequestException" -> "False"
          [] OTHER -> r

\* raise out of create_data_source: no generator
Refused(token, valid, exc) ==
    [Idle EXCEPT !.pc = "refused", !.access_token = token, !.is_valid = valid,
                 !.end = exc]

\* CreateOp with a slip: the result of validate_credentials is not looked at
CreateOp_IgnoresValidation(token, rs, rf) ==
    IF token = ""
    THEN Refused(token, "", "ValueError")
    ELSE LET v == validate_credentials(rs)
         IN  IF v \in {"True", "False"}
             THEN [StartOp(rf) EXCEPT !.access_token = token, !.is_valid = v]
             ELSE Refused(token, v, v)

\* create_data_source(..., resume_from = rf), then the first next() on the
\* generator it returns
CreateOp(token, rs, rf) ==
    IF token = ""
    THEN Refused(token, "", "ValueError")
    ELSE LET v == validate_credentials(rs)
         IN  IF v = "True"
             THEN [StartOp(rf) EXCEPT !.access_token = token, !.is_valid = v]
             ELSE Refused(token, v, IF v = "False" THEN "ValueError" ELSE v)

\* ------------------------------------------------------------ the Client
\* time.time() is counted in ticks
TicksPerSecond == 30
\* self.rate_limit, self.rate_period, self.request_interval
rate_limit == 150
rate_period == 10
request_interval == (rate_period * TicksPerSecond) \div rate_limit

\* time.time() when the service is constructed
StartTimes == {97}
\* how long session.request takes, and how long the caller takes between two
\* calls of _make_request
RequestTimes == {1}
Elapsed == {0, 1}

\* the Retry-After header of a 429: absent, seconds, or an HTTP date
RetryAfterHeaders == {"", "0", "2", "Wed, 21 Oct 2026 07:28:00 GMT"}

\* what session.request gives: status 0 is an exception raised by it
\* (ConnectionError, Timeout), any other a response
Response(status, retry_after) == [status |-> status, retry_after |-> retry_after]
ServerResponses ==
    {Response(200, ""), Response(500, ""), Response(0, "")}
        \cup {Response(429, h) : h \in RetryAfterHeaders}

\* int(response.headers.get('Retry-After', 1)): the value, or ValueError
IntParses(h) == h \in {"", "0", "2"}
IntOf(h) == CASE h = "" -> 1 [] h = "0" -> 0 [] h = "2" -> 2 [] OTHER -> 0

\* HubSpotAPIService.__init__
NewClient(t) ==
    [pc |-> "idle", now |-> t, last_request_time |-> 0, calls |-> 0,
     request |-> "", attempt |-> 0, sent |-> << >>, slept |-> << >>,
     responses |-> << >>, result |-> ""]

\* time.sleep(ticks)
Sleep(c, why, ticks) ==
    [c EXCEPT !.now = @ + ticks,
              !.slept = Append(@, [attempt |-> c.attempt, why |-> why,
                                   ticks |-> ticks])]

\* validate_credentials, get_deals: response = self._make_request('GET', url, ...)
\* the first call of a service is the one of validate_credentials
CallOp(c, elapsed) ==
    [c EXCEPT !.pc = "loop", !.now = @ + elapsed, !.calls = @ + 1,
              !.request = IF c.calls = 0 THEN "validate_credentials"
                                         ELSE "get_deals",
              !.attempt = 0, !.result = "",
              !.sent = IF @ = << >> THEN @ ELSE << @[Len(@)] >>,
              !.slept = << >>, !.responses = << >>]

\* WaitForRateLimitOp with a slip: a retry does not wait for the floor
WaitForRateLimitOp_FirstAttemptOnly(c) ==
    LET time_since_last == c.now - c.last_request_time
        w == IF c.attempt = 0 /\ time_since_last < request_interval
             THEN Sleep(c, "rate_limit", request_interval - time_since_last)
             ELSE c
    IN  [w EXCEPT !.last_request_time = w.now]

\* WaitForRateLimitOp with a slip: last_request_time is one value shared by
\* all services, not an attribute of each
WaitForRateLimitOp_Shared(c) ==
    LET last == IF client.last_request_time > peer.last_request_time
                THEN client.last_request_time ELSE peer.last_request_time
        time_since_last == c.now - last
        w == IF time_since_last < request_interval
             THEN Sleep(c, "rate_limit", request_interval - time_since_last)
             ELSE c
    IN  [w EXCEPT !.last_request_time = w.now]

\* _wait_for_rate_limit
WaitForRateLimitOp(c) ==
    LET time_since_last == c.now - c.last_request_time
        w == IF time_since_last < request_interval
             THEN Sleep(c, "rate_limit", request_interval - time_since_last)
             ELSE c
    IN  [w EXCEPT !.last_request_time = w.now]

\* the top of one turn of the loop: wait, then self.session.request(...)
SendOp(c) ==
    LET w == WaitForRateLimitOp(c)
    IN  [w EXCEPT !.pc = "sent",
                  !.sent = Append(@, [at |-> w.now, request |-> w.request])]

\* raise out of _make_request
ClientRaise(c, exc) == [c EXCEPT !.pc = "raised", !.result = exc]

\* the next turn of  for attempt in range(max_retries), or the raise after it
Continue(c) ==
    IF c.attempt + 1 < max_retries
    THEN [c EXCEPT !.pc = "loop", !.attempt = @ + 1]
    ELSE ClientRaise(c, "Exception")

\* HandleRateLimitOp with a slip: the header is not read, the sleep is the
\* default of one second
HandleRateLimitOp_IgnoresHeader(c, resp) ==
    IF ~IntParses(resp.retry_after)
    THEN ClientRaise(c, "ValueError")
    ELSE Continue(Sleep(c, "retry_after", 1 * TicksPerSecond))

\* _handle_rate_limit_response for a 429
HandleRateLimitOp(c, resp) ==
    IF ~IntParses(resp.retry_after)
    THEN ClientRaise(c, "ValueError")
    ELSE Continue(Sleep(c, "retry_after",
                        IntOf(resp.retry_after) * TicksPerSecond))

\* HandleExceptionOp with a slip: the backoff does not grow with the attempt
HandleExceptionOp_FlatBackoff(c) ==
    IF c.attempt = max_retries - 1
    THEN ClientRaise(c, "RequestException")
    ELSE LET wait_time == TicksPerSecond + (c.now % TicksPerSecond)
         IN  [Sleep(c, "backoff", wait_time)
                 EXCEPT !.pc = "loop", !.attempt = @ + 1]

\* except requests.exceptions.RequestException
HandleExceptionOp(c) ==
    IF c.attempt = max_retries - 1
    THEN ClientRaise(c, "RequestException")
    ELSE LET wait_time == (2 ^ c.attempt) * TicksPerSecond
                              + (c.now % TicksPerSecond)
         IN  [Sleep(c, "backoff", wait_time)
                 EXCEPT !.pc = "loop", !.attempt = @ + 1]

\* the rest of the turn, once session.request has returned or raised
HandleResponseOp(c, resp, took) ==
    LET r == [c EXCEPT !.now = @ + took, !.responses = Append(@, resp)]
    IN  CASE resp.status = 429 -> HandleRateLimitOp(r, resp)
          [] resp.status = 0 \/ resp.status >= 400 -> HandleExceptionOp(r)
          [] OTHER -> [r EXCEPT !.pc = "idle", !.result = "response"]

\* ------------------------------------------------------------- the model
Responses == {"ok", "429", "err"}

\* auth_config and what the API answers to the request of
\* validate_credentials: no token; a token the API rejects (401 each time);
\* a token it accepts, with or without rate limiting and network failures
Credentials ==
    {<<"", << >> >>}
        \cup {<<"expired", rs>> : rs \in {<<"err", "err", "err">>,
                                          <<"429", "err", "err">>}}
        \cup {<<"valid", rs>> : rs \in {<<"ok">>, <<"429", "ok">>,
                                        <<"err", "429", "ok">>,
                                        <<"err", "err", "err">>,
                                        <<"429", "429", "429">>}}

\* checkpoints of a long earlier run, near the safety limit
LateSeeds ==
    { Checkpoint(IF n % checkpoint_interval = 0 THEN "hubspot_deals_processing"
                                                ELSE "hubspot_deals_paused",
                 n, c, n) :
        n \in (SafetyLimit - LateWindow)..SafetyLimit, c \in {2} \cap (1..num_pages) }

Init ==
    /\ num_pages \in 1..MaxPages
    /\ chain_end = None
    /\ shift \in {0, 2}
    /\ malformed \in {<<0, 0>>, <<1, 2>>, <<3, 1>>}
    /\ deal_stages \in {{}, {"won"}}
    /\ pipelines \in {{}, {"sales"}}
    /\ checkpoint_callback \in BOOLEAN
    /\ resume_from = << >>
    /\ cancel_flag = FALSE
    /\ pause_flag = FALSE
    /\ eng = Idle
    /\ ref = Idle
    /\ \E t \in StartTimes : client = NewClient(t) /\ peer = NewClient(t)

Running == eng.pc \notin {"idle", "refused", "done"}

\* create_data_source without resume_from and the first next() on its
\* generator
StartFresh ==
    /\ eng.pc = "idle"
    /\ \E cr \in Credentials :
        /\ eng' = CreateOp(cr[1], cr[2], << >>)
        /\ ref' = CreateOp(cr[1], cr[2], << >>)
    /\ UNCHANGED <<client, peer, config, resume_from, cancel_flag, pause_flag>>

\* a run the caller seeds with a checkpoint of a long earlier run
StartSeeded ==
    /\ eng.pc = "idle"
    /\ \E ck \in LateSeeds, cr \in Credentials :
        /\ resume_from' = <<ck>>
        /\ eng' = CreateOp(cr[1], cr[2], <<ck>>)
        /\ ref' = CreateOp(cr[1], cr[2], <<ck>>)
    /\ UNCHANGED <<client, peer, config, cancel_flag, pause_flag>>

\* a fresh run has stopped; the caller resumes from one of its checkpoints
Resume ==
    /\ eng.pc = "done"
    /\ resume_from = << >>
    /\ \E i \in DOMAIN eng.ckpts, cr \in Credentials :
        /\ resume_from' = <<eng.ckpts[i]>>
        /\ eng' = CreateOp(cr[1], cr[2], <<eng.ckpts[i]>>)
        /\ ref' = CreateOp(cr[1], cr[2], <<eng.ckpts[i]>>)
    /\ cancel_flag' = FALSE
    /\ pause_flag' = FALSE
    /\ UNCHANGED <<client, peer, config>>

\* the caller asks for a cancellation or a pause while the run goes on
RequestCancel ==
    /\ Running
    /\ ~cancel_flag
    /\ cancel_flag' = TRUE
    /\ UNCHANGED <<client, peer, config, resume_from, pause_flag, eng, ref>>

RequestPause ==
    /\ Running
    /\ ~pause_flag
    /\ pause_flag' = TRUE
    /\ UNCHANGED <<client, peer, config, resume_from, cancel_flag, eng, ref>>

CancelCheck ==
    /\ eng.pc = "cancel_check"
    /\ \E ok \in BOOLEAN :
        /\ eng' = CancelCheckOp(eng, cancel_flag, ok)
        /\ ref' = CancelCheckOp(ref, cancel_flag, TRUE)
    /\ UNCHANGED <<client, peer, config, resume_from, cancel_flag, pause_flag>>

PauseCheck ==
    /\ eng.pc = "pause_check"
    /\ \E ok \in BOOLEAN :
        /\ eng' = PauseCheckOp(eng, pause_flag, ok)
        /\ ref' = PauseCheckOp(ref, pause_flag, TRUE)
    /\ UNCHANGED <<client, peer, config, resume_from, cancel_flag, pause_flag>>

MakeRequest ==
    /\ eng.pc = "request"
    /\ \E resp \in Responses :
        /\ eng' = MakeRequestOp(eng, resp)
        /\ ref' = MakeRequestOp(ref, resp)
    /\ UNCHANGED <<client, peer, config, resume_from, cancel_flag, pause_flag>>

ProcessRecord ==
    /\ eng.pc = "records"
    /\ \E ok \in BOOLEAN :
        /\ eng' = ProcessRecordOp(eng, pause_flag, ok)
        /\ ref' = ProcessRecordOp(ref, pause_flag, TRUE)
    /\ UNCHANGED <<client, peer, config, resume_from, cancel_flag, pause_flag>>

EndPage ==
    /\ eng.pc = "end_page"
    /\ \E ok1 \in BOOLEAN, ok2 \in BOOLEAN :
        /\ eng' = EndPageOp(eng, ok1, ok2)
        /\ ref' = EndPageOp(ref, TRUE, TRUE)
    /\ UNCHANGED <<client, peer, config, resume_from, cancel_flag, pause_flag>>

HandleError ==
    /\ eng.pc = "error"
    /\ \E ok \in BOOLEAN :
        /\ eng' = HandleErrorOp(eng, ok)
        /\ ref' = HandleErrorOp(ref, TRUE)
    /\ UNCHANGED <<client, peer, config, resume_from, cancel_flag, pause_flag>>

Next ==
    \/ StartFresh
    \/ StartSeeded
    \/ Resume
    \/ RequestCancel
    \/ RequestPause
    \/ CancelCheck
    \/ PauseCheck
    \/ MakeRequest
    \/ ProcessRecord
    \/ EndPage
    \/ HandleError

Spec == Init /\ [][Next]_vars

\* ------------------------------------------------- the Client on its own
\* how many calls of _make_request one service gets
MaxCalls == 2

ClientInit ==
    /\ num_pages = 1
    /\ chain_end = None
    /\ shift = 0
    /\ malformed = <<0, 0>>
    /\ deal_stages = {}
    /\ pipelines = {}
    /\ checkpoint_callback = FALSE
    /\ resume_from = << >>
    /\ cancel_flag = FALSE
    /\ pause_flag = FALSE
    /\ eng = Idle
    /\ ref = Idle
    /\ \E t \in StartTimes : client = NewClient(t) /\ peer = NewClient(t)

engine == <<config, resume_from, cancel_flag, pause_flag, eng, ref>>

Call ==
    /\ client.pc = "idle"
    /\ client.calls < MaxCalls
    /\ \E elapsed \in Elapsed : client' = CallOp(client, elapsed)
    /\ UNCHANGED <<peer, engine>>

Send ==
    /\ client.pc = "loop"
    /\ client' = SendOp(client)
    /\ UNCHANGED <<peer, engine>>

HandleResponse ==
    /\ client.pc = "sent"
    /\ \E resp \in ServerResponses, took \in RequestTimes :
        client' = HandleResponseOp(client, resp, took)
    /\ UNCHANGED <<peer, engine>>

ClientNext ==
    \/ Call
    \/ Send
    \/ HandleResponse

ClientSpec == ClientInit /\ [][ClientNext]_vars

\* ------------------------------------------- a chain that never ends
\* The API serves two pages whose cursors name each other; the caller asks
\* for no pause and no cancel and gives no checkpoint callback.
LoopInit ==
    /\ num_pages = 2
    /\ chain_end = 1
    /\ shift = 0
    /\ malformed = <<0, 0>>
    /\ deal_stages = {}
    /\ pipelines = {}
    /\ checkpoint_callback = FALSE
    /\ resume_from = << >>
    /\ cancel_flag = FALSE
    /\ pause_flag = FALSE
    /\ eng = Idle
    /\ ref = Idle
    /\ \E t \in StartTimes : client = NewClient(t) /\ peer = NewClient(t)

LoopNext ==
    \/ StartFresh
    \/ StartSeeded
    \/ CancelCheck
    \/ PauseCheck
    \/ MakeRequest
    \/ ProcessRecord
    \/ EndPage
    \/ HandleError

\* the consumer keeps iterating the generator and every call returns or raises
LoopSpec == LoopInit /\ [][LoopNext]_vars /\ WF_vars(LoopNext)

\* ---------------------------------------------- predicates that can raise
\* how many pages the API serves to these runs
FaultPages == 3

FaultInit ==
    /\ num_pages \in 1..FaultPages
    /\ chain_end = None
    /\ shift \in {0, 2}
    /\ malformed \in {<<0, 0>>, <<1, 2>>, <<3, 1>>}
    /\ deal_stages \in {{}, {"won"}}
    /\ pipelines = {}
    /\ checkpoint_callback \in BOOLEAN
    /\ resume_from = << >>
    /\ cancel_flag = FALSE
    /\ pause_flag = FALSE
    /\ eng = Idle
    /\ ref = Idle
    /\ \E t \in StartTimes : client = NewClient(t) /\ peer = NewClient(t)

CancelPredicateRaises ==
    /\ eng.pc = "cancel_check"
    /\ eng' = CancelPredicateRaisesOp(eng)
    /\ ref' = CancelPredicateRaisesOp(ref)
    /\ UNCHANGED <<client, peer, config, resume_from, cancel_flag, pause_flag>>

PausePredicateRaises ==
    /\ eng.pc = "pause_check"
    /\ eng' = PausePredicateRaisesOp(eng)
    /\ ref' = PausePredicateRaisesOp(ref)
    /\ UNCHANGED <<client, peer, config, resume_from, cancel_flag, pause_flag>>

RecordPredicateRaises ==
    /\ eng.pc = "records"
    /\ eng' = RecordPredicateRaisesOp(eng)
    /\ ref' = RecordPredicateRaisesOp(ref)
    /\ UNCHANGED <<client, peer, config, resume_from, cancel_flag, pause_flag>>

FaultNext ==
    \/ StartFresh
    \/ Resume
    \/ RequestCancel
    \/ RequestPause
    \/ CancelCheck
    \/ CancelPredicateRaises
    \/ PauseCheck
    \/ PausePredicateRaises
    \/ MakeRequest
    \/ ProcessRecord
    \/ RecordPredicateRaises
    \/ EndPage
    \/ HandleError

FaultSpec == FaultInit /\ [][FaultNext]_vars

\* ------------------------------------------------- two runs at the same time
\* Two calls of create_data_source, each with the HubSpotAPIService it
\* constructs; the two runs share nothing, so each goes by the clock as it
\* reads it and any two of their histories happen together.
PairInit ==
    /\ num_pages = 1
    /\ chain_end = None
    /\ shift = 0
    /\ malformed = <<0, 0>>
    /\ deal_stages = {}
    /\ pipelines = {}
    /\ checkpoint_callback = FALSE
    /\ resume_from = << >>
    /\ cancel_flag = FALSE
    /\ pause_flag = FALSE
    /\ eng = Idle
    /\ ref = Idle
    /\ \E t \in StartTimes : client = NewClient(t) /\ peer = NewClient(t)

\* what the API answers in these runs: a success, or the connection fails
PairResponses == {Response(200, ""), Response(0, "")}

Answered ==
    /\ client.pc = "sent"
    /\ \E resp \in PairResponses, took \in RequestTimes :
        client' = HandleResponseOp(client, resp, took)
    /\ UNCHANGED <<peer, engine>>

PeerCall ==
    /\ peer.pc = "idle"
    /\ peer.calls < MaxCalls
    /\ \E elapsed \in Elapsed : peer' = CallOp(peer, elapsed)
    /\ UNCHANGED <<client, engine>>

PeerSend ==
    /\ peer.pc = "loop"
    /\ peer' = SendOp(peer)
    /\ UNCHANGED <<client, engine>>

PeerAnswered ==
    /\ peer.pc = "sent"
    /\ \E took \in RequestTimes :
        peer' = HandleResponseOp(peer, Response(200, ""), took)
    /\ UNCHANGED <<client, engine>>

PairNext ==
    \/ Call
    \/ Send
    \/ Answered
    \/ PeerCall
    \/ PeerSend
    \/ PeerAnswered

PairSpec == PairInit /\ [][PairNext]_vars

\* ------------------------------------------------ what the claims speak of
Fresh == resume_from = << >>
\* create_data_source has not raised: there is a run
Created == eng.pc # "refused"
Seeded == resume_from # << >> /\ resume_from[1].page_number >= SafetyLimit - LateWindow
Resumed == resume_from # << >> /\ ~Seeded

\* the seed of the run: the counts and the page it starts with
SeedRecords == IF Fresh THEN 0 ELSE resume_from[1].records_processed
SeedPages == IF Fresh THEN 0 ELSE resume_from[1].page_number
StartPage == IF Fresh THEN 1 ELSE PageOf(resume_from[1].cursor)

\* ids of the deals among the first j of page p that pass the allow-lists
QualPrefix(p, j) ==
    LET body == Results(p)
        keep == SelectSeq([k \in 1..j |-> body[k]],
                          LAMBDA d : ~Discarded(transform_hubspot_deal(d, p)))
    IN  [k \in 1..Len(keep) |-> keep[k].id]

QualSeq(p) == QualPrefix(p, Len(Results(p)))

\* the qualifying deals of pages a..b, in page and array order
RECURSIVE QualBetween(_, _)
QualBetween(a, b) == IF a > b THEN << >> ELSE QualBetween(a, b - 1) \o QualSeq(b)

LastCkpt == eng.ckpts[Len(eng.ckpts)]
FetchFailed == eng.exc \in {"RequestException", "Exception"}

\* C1: a fresh run that meets no pause, no cancel and no fetch failure emits
\* exactly the qualifying records of the whole chain, in page and array order,
\* and ends with a completed checkpoint (cursor null, records_processed = the
\* number of records emitted).
C1_FreshRunEmitsAll ==
    (Fresh /\ checkpoint_callback /\ eng.pc = "done" /\ ~FetchFailed
       /\ eng.end \notin {"paused", "paused_mid_page", "cancelled"})
    => /\ eng.end = "completed"
       /\ eng.emitted = QualBetween(1, num_pages)
       /\ eng.ckpts # << >>
       /\ LastCkpt = Checkpoint("hubspot_deals_completed", Len(eng.emitted),
                                None, num_pages)

\* C1, apart from a transformation that raises: the same statement for the
\* runs in which transform_hubspot_deal raised nothing.
C1_ExceptTransformError ==
    (eng.exc # "ValueError") => C1_FreshRunEmitsAll

\* the page a checkpoint of a fresh run names: the first page it does not
\* count as completed (num_pages + 1 when no page is left)
NamedPage(ck) == ck.page_number + 1
SeedPhase == resume_from[1].phase

\* C2 as stated: a run resumed from any processing checkpoint (cursor ck,
\* records_processed r) that completes ends with records_processed equal to r
\* plus the qualifying records of the pages from k on, k being the first page
\* the checkpoint does not count: nothing is counted twice, nothing skipped.
C2_AnyProcessingCheckpoint ==
    (Resumed /\ SeedPhase = "hubspot_deals_processing"
       /\ eng.pc = "done" /\ eng.end = "completed")
    => /\ eng.total_records =
            SeedRecords + Len(QualBetween(NamedPage(resume_from[1]), num_pages))
       /\ eng.emitted = QualBetween(NamedPage(resume_from[1]), num_pages)

\* C2 as amended: the same for a processing checkpoint that carries a next
\* cursor (has_more_pages).
C2_ProcessingCheckpointWithCursor ==
    (Resumed /\ SeedPhase = "hubspot_deals_processing"
       /\ resume_from[1].cursor # None
       /\ eng.pc = "done" /\ eng.end = "completed")
    => /\ eng.total_records =
            SeedRecords + Len(QualBetween(NamedPage(resume_from[1]), num_pages))
       /\ eng.emitted = QualBetween(NamedPage(resume_from[1]), num_pages)

C2_Witness ==
    /\ Resumed /\ SeedPhase = "hubspot_deals_processing"
    /\ resume_from[1].cursor # None /\ SeedRecords > 0
    /\ eng.pc = "done" /\ eng.end = "completed" /\ Len(eng.emitted) > 0

\* what a run seeded from a checkpoint must do to be consistent with it: it
\* emits no record of a page before the one the checkpoint names, and its
\* first fetch is that page
SeededConsistently ==
    /\ \A i \in DOMAIN eng.emitted : eng.emitted[i][1] >= NamedPage(resume_from[1])
    /\ eng.fetched # << >> => PageOf(eng.fetched[1]) = NamedPage(resume_from[1])

\* C3 as stated: every checkpoint handed to the callback, whatever its phase,
\* is consistent: a run seeded from it re-emits no record of a prior page and
\* starts with the page the checkpoint names.
C3_EveryCheckpointConsistent ==
    Resumed => SeededConsistently

\* a checkpoint written once the last page is finished: completed, or the
\* processing checkpoint of the last page; its cursor is null
AfterLastPage(ck) == ck.cursor = None /\ ck.page_number > 0

\* C3 as amended: every checkpoint but those written after the last page
\* (cursor null: completed, and processing without a next cursor) is
\* consistent in that sense.
C3_CheckpointsBeforeEndConsistent ==
    (Resumed /\ ~AfterLastPage(resume_from[1])) => SeededConsistently

C3_Witness ==
    /\ Resumed /\ SeedPhase = "hubspot_deals_paused_mid_page"
    /\ resume_from[1].page_number > 0
    /\ SeedRecords > 0
    /\ Len(eng.emitted) > 1 /\ eng.pc = "done"

\* the cursor and the page of the last call of get_deals, and the page and
\* the cursor that follow it (those of the run's start before any call)
LastFetched == eng.fetched[Len(eng.fetched)]
PendingPage ==
    IF eng.fetched = << >> THEN StartPage ELSE PageOf(LastFetched) + 1
PendingCursor ==
    IF eng.fetched = << >>
    THEN (IF Fresh THEN None ELSE resume_from[1].cursor)
    ELSE NextCursor(PageOf(LastFetched))
HasPhase(phase) == \E i \in DOMAIN eng.ckpts : eng.ckpts[i].phase = phase
OnlyLast(phase) ==
    \A i \in DOMAIN eng.ckpts :
        eng.ckpts[i].phase = phase => i = Len(eng.ckpts) /\ eng.pc = "done"

\* C4: when the cancel predicate is true at the check before page p the run
\* stops there: page p is not fetched, every record emitted is of a page
\* before p, and the cancelled checkpoint carries the cursor of page p, the
\* number of completed pages and the total of the pages before p.
C4_CancelStopsBeforePage ==
    /\ OnlyLast("hubspot_deals_cancelled")
    /\ HasPhase("hubspot_deals_cancelled") => eng.end = "cancelled"
    /\ eng.end = "cancelled" =>
        /\ eng.pc = "done"
        /\ Len(eng.fetched) = PendingPage - StartPage
        /\ eng.emitted = QualBetween(StartPage, PendingPage - 1)
        /\ checkpoint_callback =>
            /\ eng.ckpts # << >>
            /\ LastCkpt = Checkpoint("hubspot_deals_cancelled",
                                     SeedRecords + Len(eng.emitted),
                                     PendingCursor,
                                     SeedPages + (PendingPage - StartPage))

C4_Witness ==
    /\ eng.end = "cancelled" /\ checkpoint_callback
    /\ Len(eng.emitted) > 0 /\ PendingPage > 2 /\ PendingPage <= num_pages

\* C5: when the pause predicate is true before a record of page p, after m
\* qualifying records of the page were emitted, the run stops at once: the
\* rest of the page is not processed, and the paused_mid_page checkpoint has
\* records_processed = (total through page p-1) + m, the cursor of page p
\* and the number of completed pages.
C5_MidPagePause ==
    /\ OnlyLast("hubspot_deals_paused_mid_page")
    /\ HasPhase("hubspot_deals_paused_mid_page") => eng.end = "paused_mid_page"
    /\ eng.end = "paused_mid_page" =>
        LET p == PageOf(LastFetched)
            before == QualBetween(StartPage, p - 1)
            m == eng.page_records
        IN  /\ eng.pc = "done"
            /\ eng.idx <= Len(Results(p))
            /\ m = Len(QualPrefix(p, eng.idx - 1))
            /\ eng.emitted = before \o QualPrefix(p, eng.idx - 1)
            /\ checkpoint_callback =>
                /\ eng.ckpts # << >>
                /\ LastCkpt = Checkpoint("hubspot_deals_paused_mid_page",
                                         SeedRecords + Len(before) + m,
                                         LastFetched,
                                         SeedPages + (p - StartPage))

C5_Witness ==
    /\ eng.end = "paused_mid_page" /\ checkpoint_callback
    /\ eng.page_records > 0 /\ PageOf(LastFetched) > 1
    /\ eng.total_records > 0
    /\ Len(QualSeq(PageOf(LastFetched))) > eng.page_records

\* records of the page that a paused_mid_page seed had already counted
SeedMidPage == SeedRecords - Len(QualBetween(1, StartPage - 1))

\* C6: a run resumed from a paused_mid_page checkpoint fetches page p again
\* with the same cursor and, once it has finished the page, has emitted all
\* the k qualifying records of page p, the m emitted before the pause among
\* them.
C6_MidPageResumeReemits ==
    (Resumed /\ SeedPhase = "hubspot_deals_paused_mid_page") =>
        /\ eng.fetched # << >> => eng.fetched[1] = resume_from[1].cursor
        /\ eng.page_count > SeedPages =>
            /\ Len(eng.emitted) >= Len(QualSeq(StartPage))
            /\ SubSeq(eng.emitted, 1, Len(QualSeq(StartPage))) = QualSeq(StartPage)
            /\ SeedMidPage \in 0..Len(QualSeq(StartPage))

C6_Witness ==
    /\ Resumed /\ SeedPhase = "hubspot_deals_paused_mid_page"
    /\ eng.page_count > SeedPages
    /\ SeedMidPage > 0
    /\ Len(QualSeq(StartPage)) > SeedMidPage
    /\ StartPage > 1

\* C7: when get_deals raises, the Engine writes an error checkpoint with the
\* cursor of the failing call and the counts from before it, and propagates
\* the failure: it calls get_deals once per page, and emits nothing more.
C7_FetchFailure ==
    FetchFailed =>
        /\ eng.pc \in {"error", "done"}
        /\ eng.pc = "done" => eng.end = "error"
        /\ Len(eng.fetched) = PendingPage - StartPage
        /\ eng.emitted = QualBetween(StartPage, PageOf(LastFetched) - 1)
        /\ (eng.pc = "done" /\ checkpoint_callback) =>
            /\ eng.ckpts # << >>
            /\ LastCkpt = Checkpoint("hubspot_deals_error",
                                     SeedRecords + Len(eng.emitted),
                                     LastFetched,
                                     SeedPages + Len(eng.fetched) - 1)

C7_Witness ==
    /\ eng.exc = "RequestException" /\ eng.pc = "done" /\ checkpoint_callback
    /\ Len(eng.emitted) > 0 /\ Len(eng.fetched) > 1

\* C8: whatever calls of checkpoint_callback fail, the run is, step for step,
\* the run with a callback that never fails: the same calls of get_deals, the
\* same records emitted, the same checkpoints handed over, the same end.
C8_CallbackFailureChangesNothing ==
    [eng EXCEPT !.swallowed = 0] = ref

C8_Witness ==
    /\ eng.swallowed > 1 /\ eng.pc = "done"
    /\ HasPhase("hubspot_deals_processing")
    /\ Len(eng.emitted) > 0

\* the phase of the checkpoint that goes with each way of stopping
PhaseOf(how) ==
    CASE how = "completed" -> "hubspot_deals_completed"
      [] how = "paused" -> "hubspot_deals_paused"
      [] how = "paused_mid_page" -> "hubspot_deals_paused_mid_page"
      [] how = "cancelled" -> "hubspot_deals_cancelled"
      [] how = "error" -> "hubspot_deals_error"
      [] OTHER -> "none"

\* C9: a run that has stopped has completed, or stopped at a pause or a
\* cancel point, or propagated an error, each with its checkpoint handed to
\* the callback last; it has not stopped in any other way.
C9_ThreeWaysToEnd ==
    (eng.pc = "done" /\ checkpoint_callback) =>
        /\ eng.end \in {"completed", "paused", "paused_mid_page", "cancelled", "error"}
        /\ eng.ckpts # << >>
        /\ LastCkpt.phase = PhaseOf(eng.end)
        /\ eng.end = "error" =>
            /\ LastCkpt.cursor = eng.after
            /\ LastCkpt.records_processed = eng.total_records
            /\ LastCkpt.page_number = eng.page_count

\* C9 for the runs the safety limit did not stop.
C9_BelowSafetyLimit ==
    (eng.end # "limit") => C9_ThreeWaysToEnd

\* failures other than 429 among the responses of the request
RECURSIVE OtherFailures(_)
OtherFailures(rs) ==
    IF rs = << >> THEN 0
    ELSE (IF Head(rs) = "err" THEN 1 ELSE 0) + OtherFailures(Tail(rs))

\* C10: a 429 does not count against the retry budget: _make_request raises
\* only after max_retries failures other than 429.
C10_RateLimitNeverRaises ==
    (eng.pc = "error" /\ FetchFailed) => OtherFailures(eng.responses) >= max_retries

\* ------------------------------------------------- the claims on the Client
\* the sleeps of one kind the Client made in the loop turn  attempt
SleepsOf(attempt, why) ==
    SelectSeq(client.slept, LAMBDA s : s.attempt = attempt /\ s.why = why)

\* the requests the call in progress (or the last call) dispatched;
\* client.sent opens with the last one of the call before
Own == IF client.calls > 1 THEN Tail(client.sent) ELSE client.sent

\* what the Engine's view of _make_request makes of a response
Abstract(resp) ==
    CASE resp.status = 200 -> "ok" [] resp.status = 429 -> "429" [] OTHER -> "err"

\* the Engine at its call of get_deals for the first page, and after the
\* responses rs to that call
AtFirstRequest == PauseCheckOp(StartOp(<< >>), FALSE, TRUE)
RECURSIVE EngineAfter(_, _)
EngineAfter(e, rs) ==
    IF rs = << >> THEN e
    ELSE EngineAfter(MakeRequestOp(e, Abstract(Head(rs))), Tail(rs))

C12_BackoffThenPropagate ==
    /\ Len(Own) <= max_retries
    /\ Len(client.responses) <= max_retries
    /\ \A i \in DOMAIN client.responses :
        client.responses[i].status \notin {200, 429} =>
            IF i - 1 < max_retries - 1
            THEN /\ \E jitter \in 0..(TicksPerSecond - 1) :
                        SleepsOf(i - 1, "backoff") =
                            << [attempt |-> i - 1, why |-> "backoff",
                                ticks |-> (2 ^ (i - 1)) * TicksPerSecond + jitter] >>
                 /\ SleepsOf(i - 1, "retry_after") = << >>
            ELSE /\ SleepsOf(i - 1, "backoff") = << >>
                 /\ SleepsOf(i - 1, "retry_after") = << >>
                 /\ client.pc = "raised"
                 /\ client.result = "RequestException"

C12_Witness ==
    /\ client.calls = 2 /\ client.pc = "raised"
    /\ Len(client.responses) = 3
    /\ client.responses[1].status = 0
    /\ client.responses[2].status = 500
    /\ client.responses[3].status = 500
    /\ SleepsOf(1, "backoff") # << >>
    /\ SleepsOf(1, "backoff")[1].ticks > 2 * TicksPerSecond

\* C13: two consecutive requests of one Client, first attempts and retries
\* alike, are dispatched at least rate_period / rate_limit seconds apart.
C13_RateFloor ==
    \A i \in 1..(Len(client.sent) - 1) :
        client.sent[i + 1].at - client.sent[i].at >= request_interval

C13_Witness ==
    /\ client.calls = 2 /\ Len(client.sent) = 3
    /\ client.sent[2].at - client.sent[1].at = request_interval
    /\ client.sent[3].at - client.sent[2].at = request_interval
    /\ SleepsOf(0, "rate_limit") # << >>
    /\ SleepsOf(1, "rate_limit") # << >>

\* C14: a single run never fetches more than 1000 pages, whatever cursors the
\* API returns: with a chain that never ends the run still terminates.
C14_RunEndsWithinSafetyLimit ==
    /\ [](Len(eng.fetched) <= SafetyLimit - SeedPages)
    /\ <>(eng.pc \in {"done", "refused"})

C14_Witness ==
    /\ Fresh /\ eng.pc = "done" /\ eng.end = "limit"
    /\ Len(eng.fetched) = SafetyLimit
    /\ PageOf(eng.fetched[SafetyLimit]) = 2

\* the processing checkpoints the run handed to the callback, in order
ProcessingCkpts ==
    SelectSeq(eng.ckpts, LAMBDA ck : ck.phase = "hubspot_deals_processing")

\* C15: a processing checkpoint is handed to the callback exactly when a page
\* is finished and the page_number after it is a multiple of 5; it carries
\* the next cursor, the one the following fetch uses, and the page_number
\* and records_processed that include the page just finished.
C15_ProcessingEveryFifthPage ==
    (checkpoint_callback /\ Created) =>
        /\ Len(ProcessingCkpts) =
              (eng.page_count \div checkpoint_interval)
                  - (SeedPages \div checkpoint_interval)
        /\ \A i \in DOMAIN ProcessingCkpts :
            LET ck == ProcessingCkpts[i]
                j == ck.page_number - SeedPages
            IN  /\ ck.page_number =
                      ((SeedPages \div checkpoint_interval) + i) * checkpoint_interval
                /\ j \in 1..Len(eng.fetched)
                /\ ck.cursor = NextCursor(PageOf(eng.fetched[j]))
                /\ Len(eng.fetched) > j => eng.fetched[j + 1] = ck.cursor
                /\ ck.records_processed =
                      SeedRecords
                          + Cardinality({n \in DOMAIN eng.emitted :
                                eng.emitted[n][1] <= PageOf(eng.fetched[j])})
                /\ ck.batch_size = batch_size

C15_Witness ==
    /\ Resumed /\ SeedPages = 2 /\ SeedPhase = "hubspot_deals_paused_mid_page"
    /\ Len(ProcessingCkpts) = 1
    /\ ProcessingCkpts[1].cursor # None
    /\ ProcessingCkpts[1].records_processed > SeedRecords
    /\ Len(eng.fetched) = 4

\* C16: when the pause predicate is true at the check before page p (the
\* cancel predicate being false) the run stops there: page p is not fetched,
\* the paused checkpoint carries the cursor of page p, the number of
\* completed pages and the total through page p-1, and a run resumed from it
\* starts with page p.
C16_BoundaryPause ==
    /\ OnlyLast("hubspot_deals_paused")
    /\ HasPhase("hubspot_deals_paused") => eng.end = "paused"
    /\ eng.end = "paused" =>
        /\ eng.pc = "done"
        /\ Len(eng.fetched) = PendingPage - StartPage
        /\ eng.emitted = QualBetween(StartPage, PendingPage - 1)
        /\ checkpoint_callback =>
            /\ eng.ckpts # << >>
            /\ LastCkpt = Checkpoint("hubspot_deals_paused",
                                     SeedRecords + Len(eng.emitted),
                                     PendingCursor,
                                     SeedPages + (PendingPage - StartPage))
    /\ (Resumed /\ SeedPhase = "hubspot_deals_paused" /\ Created) =>
        /\ eng.page_count >= SeedPages
        /\ eng.fetched # << >> =>
            /\ eng.fetched[1] = resume_from[1].cursor
            /\ PageOf(eng.fetched[1]) = NamedPage(resume_from[1])
        /\ \A i \in DOMAIN eng.emitted :
            eng.emitted[i][1] >= NamedPage(resume_from[1])
        /\ eng.emitted # << >> =>
            eng.emitted[1] = QualBetween(NamedPage(resume_from[1]), num_pages)[1]

C16_Witness ==
    /\ Resumed /\ SeedPhase = "hubspot_deals_paused"
    /\ SeedPages = 2 /\ SeedRecords > 0
    /\ eng.end = "paused" /\ Len(eng.emitted) > 0
    /\ Len(eng.fetched) = 2

\* ---------------------------------------------- the claims on the records
\* a raw deal passes every configured allow-list
Passes(d) ==
    /\ deal_stages # {} => d.dealstage \in deal_stages
    /\ pipelines # {} => d.pipeline \in pipelines

\* ids of the deals among the first j of page p that pass, and of pages a..b
PassPrefix(p, j) ==
    LET body == Results(p)
        keep == SelectSeq([k \in 1..j |-> body[k]], Passes)
    IN  [k \in 1..Len(keep) |-> keep[k].id]
RECURSIVE PassBetween(_, _)
PassBetween(a, b) ==
    IF a > b THEN << >>
    ELSE PassBetween(a, b - 1) \o PassPrefix(b, Len(Results(b)))

\* how many deals of the page in hand (eng.data) the run has got past:
\* transformed and either discarded or emitted
Past == IF eng.idx - 1 < Len(Results(eng.data)) THEN eng.idx - 1
        ELSE Len(Results(eng.data))
\* the page in hand is not yet in total_records
InPage ==
    \/ eng.pc \in {"records", "end_page"}
    \/ eng.exc = "ValueError"
    \/ eng.end = "paused_mid_page"
\* the run has got past deal k of page p
Handled(p, k) ==
    /\ eng.data # 0
    /\ p >= StartPage
    /\ p < eng.data \/ (p = eng.data /\ k <= Past)
Emitted(id) == \E i \in DOMAIN eng.emitted : eng.emitted[i] = id

\* the records emitted from the page in hand
FromPageInHand ==
    SubSeq(eng.emitted, Len(eng.emitted) - eng.page_records + 1, Len(eng.emitted))

\* C17: of the records the run has got past, those emitted are exactly those
\* that pass every configured allow-list (stage in the stage list and
\* pipeline in the pipeline list, each only if configured), in order; a
\* discarded record counts neither in the page's count nor in the total.
C17_EmittedIffPassesAllowLists ==
    /\ eng.data = 0 => eng.emitted = << >>
    /\ eng.data # 0 =>
        /\ eng.page_records <= Len(eng.emitted)
        /\ FromPageInHand = PassPrefix(eng.data, Past)
    /\ (eng.data # 0 /\ eng.pc \in {"end_page", "done"}) =>
          eng.emitted =
              PassBetween(StartPage, eng.data - 1) \o PassPrefix(eng.data, Past)
    /\ Created =>
          eng.total_records =
              SeedRecords + Len(eng.emitted)
                  - (IF InPage THEN eng.page_records ELSE 0)

C17_Witness ==
    /\ deal_stages # {} /\ pipelines # {}
    /\ eng.pc = "done" /\ eng.end = "completed"
    /\ \E p \in 1..num_pages, k \in 1..3 :
          /\ k \in DOMAIN Results(p) /\ Handled(p, k)
          /\ Results(p)[k].dealstage \in deal_stages
          /\ Results(p)[k].pipeline \notin pipelines
    /\ \E p \in 1..num_pages, k \in 1..3 :
          /\ k \in DOMAIN Results(p) /\ Handled(p, k)
          /\ Results(p)[k].dealstage \notin deal_stages
          /\ Results(p)[k].pipeline \in pipelines
    /\ Len(eng.emitted) > 1
    /\ eng.total_records = Len(eng.emitted)

\* C18: a parsing failure of a date or numeric field of a raw deal is no
\* error: the transformation does not raise and the run goes on, so no run
\* ends in the error handler with a ValueError of the transformation.
C18_ParseFailuresDegrade ==
    eng.exc # "ValueError"

\* the amount of the raw deal is malformed
MalformedAmount(d) == d.amount # "" /\ ~FloatParses(d.amount)

\* C19: a malformed amount gives amount = null and raises nothing, and the
\* record is emitted and counted like any other when it passes the stage and
\* pipeline filters.
C19_MalformedAmountStillEmitted ==
    eng.data # 0 =>
        LET body == Results(eng.data)
        IN  /\ \A k \in DOMAIN body :
                MalformedAmount(body[k]) =>
                    /\ transform_hubspot_deal(body[k], eng.data).amount = Null
                    /\ body[k].id # malformed => ~TransformRaises(body[k])
                    /\ (k <= Past /\ Passes(body[k])) =>
                          \E n \in DOMAIN FromPageInHand :
                              FromPageInHand[n] = body[k].id
            /\ eng.page_records <= Len(eng.emitted)
            /\ eng.page_records = Len(PassPrefix(eng.data, Past))

C19_Witness ==
    /\ deal_stages # {} /\ pipelines # {}
    /\ eng.pc = "done" /\ eng.end = "completed"
    /\ \E p \in 1..num_pages, k \in 1..3 :
          /\ k \in DOMAIN Results(p) /\ Handled(p, k)
          /\ MalformedAmount(Results(p)[k])
          /\ Emitted(<<p, k>>)
          /\ p > 1
    /\ Len(eng.emitted) = eng.total_records

\* C20: when auth_config yields no access token, or validate_credentials
\* returns False for it, create_data_source raises ValueError before the
\* loop: the Engine fetches no page, emits no record, writes no checkpoint.
C20_ConfigErrorBeforeLoop ==
    /\ (eng.pc # "idle" /\ (eng.access_token = "" \/ eng.is_valid = "False"))
       => /\ eng.pc = "refused"
          /\ eng.end = "ValueError"
    /\ eng.pc = "refused" =>
          /\ eng.fetched = << >>
          /\ eng.emitted = << >>
          /\ eng.ckpts = << >>
          /\ eng.page_count = 0 /\ eng.total_records = 0
    /\ (eng.fetched # << >> \/ eng.emitted # << >> \/ eng.ckpts # << >>)
       => (eng.access_token # "" /\ eng.is_valid = "True")

C20_Witness ==
    /\ eng.pc = "refused" /\ eng.end = "ValueError"
    /\ eng.access_token = "expired" /\ eng.is_valid = "False"
    /\ Resumed /\ SeedRecords > 0

\* ------------------------------------------- the claims of the later runs
\* C21: validate_credentials returns true iff its list call ends with a
\* success status and false otherwise: whatever the API answers, every call
\* yields a boolean and none raises.
C21_ValidateYieldsBoolean ==
    eng.access_token # "" => eng.is_valid \in {"True", "False"}

\* the run is between the cancel check of a page and the end of that page
PageInProgress == eng.pc \in {"pause_check", "request", "records", "end_page"}

\* the run has passed the cancel check of a page it has not fetched
CheckedNotFetched ==
    eng.pc = "pause_check" \/ eng.end \in {"cancelled", "paused"}

SentIndex(c, attempt) == (IF c.calls > 1 THEN 1 ELSE 0) + attempt + 1

\* the service keeps its own floor between its own dispatches
OwnFloor(c) ==
    \A i \in 1..(Len(c.sent) - 1) :
        c.sent[i + 1].at - c.sent[i].at >= request_interval

\* the limiter of a service goes by that service's dispatches alone:
\* last_request_time is the time of its own last dispatch, and a dispatch it
\* delayed comes exactly request_interval after its own dispatch before
OwnLimiter(c) ==
    /\ c.last_request_time = IF c.sent = << >> THEN 0 ELSE c.sent[Len(c.sent)].at
    /\ \A n \in DOMAIN c.slept :
        c.slept[n].why = "rate_limit" =>
            LET k == SentIndex(c, c.slept[n].attempt)
            IN  /\ k > 1 /\ k <= Len(c.sent)
                /\ c.sent[k].at - c.sent[k - 1].at = request_interval

\* two dispatches, one of each service, closer than the floor
JointlyTooClose ==
    \E i \in DOMAIN client.sent, j \in DOMAIN peer.sent :
        /\ client.sent[i].at - peer.sent[j].at < request_interval
        /\ peer.sent[j].at - client.sent[i].at < request_interval

\* C23: the rate limiter's state belongs to each Client and is not shared:
\* of two runs at the same time, each with its own Client, each keeps its own
\* floor between its own requests and never waits for the other; requests of
\* the two can therefore be dispatched less than rate_period / rate_limit
\* seconds apart (the state of C23_Witness).
C23_LimiterPerClient ==
    /\ OwnFloor(client) /\ OwnFloor(peer)
    /\ OwnLimiter(client) /\ OwnLimiter(peer)

C23_Witness ==
    /\ JointlyTooClose
    /\ client.calls = 2 /\ peer.calls = 2
    /\ Len(client.sent) >= 2 /\ Len(peer.sent) >= 2
    /\ \E n \in DOMAIN client.slept : client.slept[n].why = "rate_limit"
    /\ \E n \in DOMAIN peer.slept : peer.slept[n].why = "rate_limit"
    /\ \E i \in DOMAIN client.sent :
          peer.sent[Len(peer.sent)].at = client.sent[i].at

\* C24: at the moment a checkpoint is handed to the callback, whatever its
\* phase, its records_processed is at most the resume seed plus the number
\* of records the run has emitted so far, and exactly that number unless
\* the phase is error.
C24_CountNeverAheadOfEmitted ==
    [][\A i \in (Len(eng.ckpts) + 1)..Len(eng'.ckpts) :
          LET ck == eng'.ckpts[i]
          IN  /\ ck.records_processed <= SeedRecords + Len(eng'.emitted)
              /\ ck.phase # "hubspot_deals_error"
                    => ck.records_processed = SeedRecords + Len(eng'.emitted)]_vars

C24_Witness ==
    /\ Resumed /\ SeedRecords > 0 /\ checkpoint_callback
    /\ HasPhase("hubspot_deals_processing")
    /\ eng.end = "paused_mid_page" /\ eng.page_records > 0
    /\ LastCkpt.records_processed = SeedRecords + Len(eng.emitted)
    /\ LastCkpt.records_processed > eng.total_records

\* the phases of a checkpoint written when the run stops
StoppingPhases ==
    {"hubspot_deals_paused", "hubspot_deals_paused_mid_page",
     "hubspot_deals_cancelled", "hubspot_deals_completed", "hubspot_deals_error"}

\* C25: a run hands at most one checkpoint with a stopping phase (paused,
\* paused_mid_page, cancelled, completed, error) to the callback; it is the
\* last checkpoint of the run, and after it the run fetches no page, emits
\* no record and writes no checkpoint.
C25_OneStoppingCheckpointLast ==
    /\ [](\A i \in DOMAIN eng.ckpts :
            eng.ckpts[i].phase \in StoppingPhases
                => i = Len(eng.ckpts) /\ eng.pc = "done")
    /\ [][(eng.ckpts # << >> /\ LastCkpt.phase \in StoppingPhases /\ eng' # eng)
            => /\ eng'.fetched = << >> /\ eng'.emitted = << >>
               /\ eng'.ckpts = << >>
               /\ resume_from' # resume_from]_vars

C25_Witness ==
    /\ eng.pc = "done" /\ Len(eng.ckpts) >= 2
    /\ LastCkpt.phase = "hubspot_deals_error"
    /\ eng.ckpts[1].phase = "hubspot_deals_processing"
    /\ Len(eng.emitted) > 0 /\ Len(eng.fetched) > checkpoint_interval

\* C26: a run resumed from a paused_mid_page checkpoint (records_processed =
\* T + m, cursor of page p) that completes ends with records_processed =
\* T + m + (qualifying records of pages p onward): it emits page p from its
\* first record again, so the m records emitted before the pause are counted
\* twice and the final count is the number of distinct qualifying records of
\* the chain plus m.
C26_MidPageResumeCountsTwice ==
    (Resumed /\ SeedPhase = "hubspot_deals_paused_mid_page"
       /\ eng.pc = "done" /\ eng.end = "completed")
    => LET onward == QualBetween(StartPage, num_pages)
       IN  /\ eng.emitted = onward
           /\ SeedMidPage \in 0..Len(QualSeq(StartPage))
           /\ SubSeq(onward, 1, SeedMidPage)
                 = SubSeq(QualSeq(StartPage), 1, SeedMidPage)
           /\ eng.total_records = SeedRecords + Len(onward)
           /\ eng.total_records = Len(QualBetween(1, num_pages)) + SeedMidPage
           /\ eng.page_count = num_pages
           /\ eng.ckpts # << >>
           /\ LastCkpt = Checkpoint("hubspot_deals_completed",
                                    SeedRecords + Len(onward), None, num_pages)

C26_Witness ==
    /\ Resumed /\ SeedPhase = "hubspot_deals_paused_mid_page"
    /\ eng.pc = "done" /\ eng.end = "completed"
    /\ SeedMidPage > 0 /\ StartPage > 1 /\ num_pages > StartPage
    /\ SeedRecords > SeedMidPage
    /\ eng.total_records > Len(QualBetween(1, num_pages))

\* a step of the run (not of the caller's requests, not the start of a run)
RunStep == Running /\ eng' # eng
\* the step in which the run leaves the loop: break, return, or a raise
\* inside the loop body
LeavesLoop == eng.pc # "error" /\ eng'.pc \in {"done", "error"}

\* the run stops in this step with the checkpoint of a pause
StopsPaused(how) ==
    /\ eng'.pc = "done" /\ eng'.end = how
    /\ eng'.emitted = eng.emitted /\ eng'.fetched = eng.fetched
    /\ checkpoint_callback =>
          /\ Len(eng'.ckpts) = Len(eng.ckpts) + 1
          /\ eng'.ckpts[Len(eng'.ckpts)].phase = PhaseOf(how)

\* what holds of every step whatever else happens: each turn of the record
\* loop polls the pause predicate once, before the record, qualifying or
\* not; each boundary pause check polls it once; a poll that finds it true
\* stops the run there; no step that starts with it true emits a record (the
\* record whose poll came just before the request is the one further record)
PausePolls ==
    /\ (RunStep /\ eng.pc = "records") =>
          /\ eng'.polls.record = eng.polls.record + 1
          /\ pause_flag => StopsPaused("paused_mid_page")
    /\ (RunStep /\ eng.pc = "pause_check") =>
          /\ eng'.polls.pause = eng.polls.pause + 1
          /\ pause_flag => StopsPaused("paused")
    /\ (RunStep /\ pause_flag) => eng'.emitted = eng.emitted

\* C27 as stated: once the pause predicate is true and stays true at most one
\* further record is emitted; the predicate is evaluated before every raw
\* record and at each page boundary; and the run leaves the loop with a
\* paused_mid_page or paused checkpoint, unless the page in progress was the
\* last one and had no record left to check (it then completes).  The runs
\* that the safety limit stops are left aside here.
C27_PauseEndsPaused ==
    [][/\ PausePolls
       /\ (RunStep /\ pause_flag /\ LeavesLoop
              /\ eng.page_count < SafetyLimit) =>
             \/ eng'.end \in {"paused", "paused_mid_page"}
             \/ /\ eng'.end = "completed"
                /\ eng.pc = "end_page" /\ NextCursor(eng.data) = None]_vars

\* C27 as amended: the same, the run leaving the loop paused unless
\* something else stops it before the next poll of the pause predicate: the
\* page in progress was the last one and had no record left (completed), the
\* cancel predicate is true at the boundary, where it is evaluated first
\* (cancelled), the fetch in flight fails (error), or the page count has
\* reached the safety limit (no checkpoint).
C27_PauseEndsPausedUnlessStoppedFirst ==
    [][/\ PausePolls
       /\ (RunStep /\ pause_flag /\ LeavesLoop) =>
             \/ eng'.end \in {"paused", "paused_mid_page"}
             \/ /\ eng'.end = "completed"
                /\ eng.pc = "end_page" /\ NextCursor(eng.data) = None
             \/ /\ eng'.end = "cancelled"
                /\ eng.pc = "cancel_check" /\ cancel_flag
                /\ eng'.polls.pause = eng.polls.pause
             \/ /\ eng'.pc = "error" /\ eng.pc = "request"
                /\ eng'.exc \in {"RequestException", "Exception"}
             \/ /\ eng'.end = "limit"
                /\ eng.pc = "cancel_check" /\ eng.page_count >= SafetyLimit]_vars

C27_Witness ==
    /\ pause_flag /\ ~cancel_flag /\ checkpoint_callback
    /\ eng.end = "paused_mid_page"
    /\ eng.page_records = 1 /\ eng.idx = 3
    /\ ~Passes(Results(eng.data)[1]) /\ ~Passes(Results(eng.data)[3])
    /\ eng.polls.record > eng.idx
    /\ LastCkpt.phase = "hubspot_deals_paused_mid_page"

\* C28: at a page boundary the cancel predicate is evaluated before the pause
\* predicate: the boundary's pause check is reached only after the cancel
\* predicate was polled there and found false, and the step of a boundary
\* at which both are true polls the cancel predicate, ends the run cancelled
\* with the cancelled checkpoint as the only one written, and does not poll
\* the pause predicate.
C28_CancelBeforePause ==
    /\ [](/\ eng.polls.pause <= eng.polls.cancel
          /\ eng.pc = "pause_check" => eng.polls.cancel = eng.polls.pause + 1)
    /\ [][(/\ eng.pc = "cancel_check" /\ eng.page_count < SafetyLimit
            /\ cancel_flag /\ pause_flag /\ eng' # eng) =>
              /\ eng'.pc = "done" /\ eng'.end = "cancelled"
              /\ eng'.polls.cancel = eng.polls.cancel + 1
              /\ eng'.polls.pause = eng.polls.pause
              /\ eng'.polls.record = eng.polls.record
              /\ eng'.fetched = eng.fetched /\ eng'.emitted = eng.emitted
              /\ eng'.ckpts =
                    IF checkpoint_callback
                    THEN Append(eng.ckpts,
                                Checkpoint("hubspot_deals_cancelled",
                                           eng.total_records, eng.after,
                                           eng.page_count))
                    ELSE eng.ckpts]_vars

\* both predicates were true at the boundary after a fetched page (neither
\* can be set once the run is over)
C28_Witness ==
    /\ eng.end = "cancelled" /\ cancel_flag /\ pause_flag
    /\ checkpoint_callback
    /\ Len(eng.fetched) >= 1 /\ Len(eng.emitted) >= 1
    /\ eng.polls.cancel = eng.polls.pause + 1
    /\ LastCkpt.phase = "hubspot_deals_cancelled"
    /\ \A i \in DOMAIN eng.ckpts : eng.ckpts[i].phase # "hubspot_deals_paused"

\* how a finished call of _make_request ended, read off its log
ReturnedFirstSuccess ==
    /\ client.pc = "idle" /\ client.result = "response"
    /\ client.responses # << >>
    /\ \A i \in DOMAIN client.responses :
          (client.responses[i].status = 200) <=> (i = Len(client.responses))
PropagatedLastException ==
    /\ client.pc = "raised" /\ client.result = "RequestException"
    /\ Len(client.responses) = max_retries
    /\ client.responses[max_retries].status \notin {200, 429}
RaisedMaxRetries ==
    /\ client.pc = "raised" /\ client.result = "Exception"
    /\ Len(client.responses) = max_retries
    /\ client.responses[max_retries].status = 429
CallOver == client.calls > 0 /\ client.pc \in {"idle", "raised"}

\* C29: one call of _make_request dispatches at most 3 requests whatever it
\* is answered, each answer using up one turn of the loop (so the call
\* ends), and it ends in one of three ways: the first successful response
\* returned, the last request exception propagated when the 3rd attempt
\* fails, or the generic max-retries exception when the 3rd attempt is
\* answered 429.
C29_ThreeDispatchesThreeOutcomes ==
    /\ Len(Own) <= max_retries
    /\ client.attempt < max_retries
    /\ client.pc = "loop" => Len(Own) = client.attempt
    /\ client.pc = "sent" => Len(Own) = client.attempt + 1
    /\ Len(client.responses) <= Len(Own)
    /\ CallOver =>
          /\ Len(client.responses) = Len(Own)
          /\ \/ ReturnedFirstSuccess
             \/ PropagatedLastException
             \/ RaisedMaxRetries

\* the same for the calls in which every Retry-After header of a 429 is
\* absent or a number of seconds
C29_ExceptUnreadableHeader ==
    (\A i \in DOMAIN client.responses :
        client.responses[i].status = 429 =>
            IntParses(client.responses[i].retry_after))
    => C29_ThreeDispatchesThreeOutcomes

\* the exception came from a predicate or from the transformation
BodyFailed == eng.exc \in {"PredicateError", "ValueError"}
\* the cursor of the page in progress when it was raised: the one of the
\* last call of get_deals, or at a boundary check the one of the call to come
FailedCursor ==
    IF eng.polls.cancel = Len(eng.fetched) THEN LastFetched ELSE PendingCursor

\* C30: an exception raised in the loop body by the cancel predicate, the
\* pause predicate or the transformation of a record is handled like a fetch
\* failure: the run goes to the handler and ends by raising it, nothing is
\* fetched or emitted after it, and the error checkpoint, the last one,
\* carries the cursor of the page in progress, the number of completed
\* pages, and as records_processed the total through the last completed
\* page, without the records already emitted from the page in progress.
C30_BodyExceptionLikeFetchFailure ==
    BodyFailed =>
        LET p == PageOf(FailedCursor)
            before == QualBetween(StartPage, p - 1)
            inpage == [k \in 1..(Len(eng.emitted) - Len(before)) |->
                          eng.emitted[Len(before) + k]]
        IN  /\ eng.pc \in {"error", "done"}
            /\ eng.pc = "done" => eng.end = "error"
            /\ eng.after = FailedCursor
            /\ Len(eng.emitted) >= Len(before)
            /\ eng.emitted = before \o inpage
            /\ \E j \in 0..Len(Results(p)) : inpage = QualPrefix(p, j)
            /\ eng.polls.cancel = Len(eng.fetched) \/ inpage = << >>
            /\ (eng.pc = "done" /\ checkpoint_callback) =>
                /\ eng.ckpts # << >>
                /\ OnlyLast("hubspot_deals_error")
                /\ LastCkpt = Checkpoint("hubspot_deals_error",
                                         SeedRecords + Len(before),
                                         FailedCursor,
                                         SeedPages + (p - StartPage))

\* a predicate raised before the third record of a page, after a record of
\* that page was emitted; the error checkpoint leaves that record out
C30_Witness ==
    /\ eng.exc = "PredicateError" /\ eng.end = "error" /\ checkpoint_callback
    /\ eng.page_count >= 1 /\ eng.page_records >= 1
    /\ eng.polls.record > eng.idx
    /\ LastCkpt.phase = "hubspot_deals_error"
    /\ LastCkpt.cursor = eng.after
    /\ LastCkpt.records_processed < SeedRecords + Len(eng.emitted)

\* the pages the ceiling leaves to a run seeded with page_number = SeedPages
PagesLeft == IF SeedPages >= SafetyLimit THEN 0 ELSE SafetyLimit - SeedPages

\* C31: the ceiling of 1000 pages counts the pages of the earlier runs too:
\* page_count starts at the seed's page_number, a page is in progress only
\* below the ceiling, and a run fetches at most 1000 - page_number pages
\* (none when page_number >= 1000).  A run the ceiling stops has completed
\* every page it fetched, raised nothing, and ends without a completed,
\* paused, cancelled or error checkpoint: what it wrote are processing
\* checkpoints, and the ceiling is tested before the predicates are polled.
C31_CeilingIsCumulative ==
    Created =>
        /\ Len(eng.fetched) <= PagesLeft
        /\ eng.page_count >= SeedPages
        /\ eng.pc \in {"pause_check", "request", "records", "end_page", "error"}
              => eng.page_count < SafetyLimit
        /\ (eng.pc = "done" /\ eng.page_count >= SafetyLimit
               /\ eng.end # "completed") => eng.end = "limit"
        /\ eng.end = "limit" =>
              /\ eng.pc = "done" /\ eng.exc = ""
              /\ eng.page_count >= SafetyLimit
              /\ Len(eng.fetched) = PagesLeft
              /\ eng.page_count = SeedPages + Len(eng.fetched)
              /\ eng.emitted =
                    QualBetween(StartPage, StartPage + Len(eng.fetched) - 1)
              /\ eng.polls.cancel = Len(eng.fetched)
              /\ eng.polls.pause = Len(eng.fetched)
              /\ \A i \in DOMAIN eng.ckpts :
                    /\ eng.ckpts[i].phase \notin StoppingPhases
                    /\ eng.ckpts[i].phase = "hubspot_deals_processing"

\* a run seeded two pages below the ceiling fetched two pages and was
\* stopped with a page left to fetch, the caller asking for a cancellation
C31_Witness ==
    /\ eng.end = "limit" /\ checkpoint_callback /\ cancel_flag
    /\ Seeded /\ SeedPages = SafetyLimit - 2
    /\ Len(eng.fetched) = 2 /\ Len(eng.emitted) > 0
    /\ eng.after # None
    /\ eng.ckpts # << >>

====
